---- MODULE Spec2Model ----
\* Verification model of scripts/generate_icon.py (create_neuro_icon) and
\* scripts/generate_installer_assets.py (create_installer_assets).
\* Three specifications:
\*   RasterSpec : one sampled pixel of one canvas followed through every
\*                draw call of the generator that owns the canvas;
\*   GlyphSpec  : the vertex lists handed to draw.polygon, examined edge pair
\*                by edge pair and vertex by vertex;
\*   Spec       : the two generators as processes writing files to the
\*                output directory, interleaved with each other and with the
\*                directory appearing and disappearing.
EXTENDS Integers, Sequences, FiniteSets, TLC

\* ---------------------------------------------------------------------------
\* Program constants
\* ---------------------------------------------------------------------------

size == 512
sidebar_w == 164
sidebar_h == 314
header_w == 150
header_h == 57
rr_radius == 128

\* draw.polygon vertex lists, as written in the source
icon_path_coords ==
    << <<160, 352>>, <<160, 160>>, <<208, 160>>, <<304, 304>>,
       <<304, 160>>, <<352, 160>>, <<352, 352>>, <<304, 352>>,
       <<208, 208>>, <<208, 352>>, <<160, 352>> >>

sidebar_path_coords_swapped ==
    << <<60, 150>>, <<80, 100>>, <<60, 100>>, <<104, 130>>, <<104, 100>>,
       <<114, 100>>, <<114, 150>>, <<104, 150>>, <<80, 120>>, <<80, 150>> >>

sidebar_path_coords ==
    << <<60, 150>>, <<60, 100>>, <<80, 100>>, <<104, 130>>, <<104, 100>>,
       <<114, 100>>, <<114, 150>>, <<104, 150>>, <<80, 120>>, <<80, 150>> >>

n_small_wide ==
    << <<120, 40>>, <<120, 15>>, <<125, 15>>, <<135, 30>>, <<135, 15>>,
       <<150, 15>>, <<150, 40>>, <<135, 40>>, <<125, 25>>, <<125, 40>> >>

n_small ==
    << <<120, 40>>, <<120, 15>>, <<125, 15>>, <<135, 30>>, <<135, 15>>,
       <<140, 15>>, <<140, 40>>, <<135, 40>>, <<125, 25>>, <<125, 40>> >>

\* colours
WhiteRGBA == <<255, 255, 255, 255>>
ZincRGBA == <<24, 24, 27, 255>>
WhiteRGB == <<255, 255, 255>>
ZincRGB == <<24, 24, 27>>

\* the sidebar bottom border rectangle [0, sidebar_h-5, sidebar_w, sidebar_h]
sidebar_rect_short == <<0, sidebar_h - 4, sidebar_w, sidebar_h>>
sidebar_rect == <<0, sidebar_h - 5, sidebar_w, sidebar_h>>

\* ---------------------------------------------------------------------------
\* Image library behaviour (Pillow ImageDraw / libImaging Draw.c)
\* ---------------------------------------------------------------------------

Min(a, b) == IF a <= b THEN a ELSE b
Max(a, b) == IF a >= b THEN a ELSE b

\* Edge list built by ImagingDrawPolygon: one edge per consecutive pair of
\* vertices, plus the closing edge when the last vertex differs from the first.
PolyEdges(P) ==
    LET n == Len(P)
        open == [i \in 1..(n - 1) |-> <<P[i], P[i + 1]>>]
    IN IF P[n] = P[1] THEN open ELSE Append(open, <<P[n], P[1]>>)

IsHorizontal(e) == e[1][2] = e[2][2]

\* Scan-line x of a non-horizontal edge at row y, scaled by XDen.  The
\* polygons of the source have slopes 2/3 and 4/5, so the scaled value is an
\* integer and the scan line is computed exactly.
XDen == 15
EdgeX(e, y) ==
    LET x0 == e[1][1]  y0 == e[1][2]  x1 == e[2][1]  y1 == e[2][2]
        num == (y - y0) * (x1 - x0) * XDen
        den == y1 - y0
    IN x0 * XDen + (IF den > 0 THEN num \div den ELSE (-num) \div (-den))

EdgeYMin(e) == Min(e[1][2], e[2][2])
EdgeYMax(e) == Max(e[1][2], e[2][2])

PolyYMin(P, H) ==
    LET E == PolyEdges(P)
    IN Min(H - 1, CHOOSE m \in {EdgeYMin(E[i]) : i \in 1..Len(E)} :
                     \A i \in 1..Len(E) : m <= EdgeYMin(E[i]))
PolyYMax(P, H) ==
    LET E == PolyEdges(P)
        m == CHOOSE v \in {EdgeYMax(E[i]) : i \in 1..Len(E)} :
                 \A i \in 1..Len(E) : v >= EdgeYMax(E[i])
    IN Min(H, Max(0, m))

\* The intersections collected for scan line y in polygon_generic, in edge
\* order; an edge ending on y (and y is not the last row) contributes twice.
RECURSIVE CollectXX(_, _, _, _)
CollectXX(E, i, y, ymax) ==
    IF i > Len(E) THEN << >>
    ELSE LET e == E[i]
             rest == CollectXX(E, i + 1, y, ymax)
         IN
         IF IsHorizontal(e) \/ y < EdgeYMin(e) \/ y > EdgeYMax(e) THEN rest
         ELSE IF y = EdgeYMax(e) /\ y < ymax
              THEN <<EdgeX(e, y), EdgeX(e, y)>> \o rest
              ELSE <<EdgeX(e, y)>> \o rest

\* qsort(xx, j, sizeof(float), x_cmp)
RECURSIVE InsertXX(_, _)
InsertXX(v, s) ==
    IF s = << >> THEN <<v>>
    ELSE IF v <= Head(s) THEN <<v>> \o s ELSE <<Head(s)>> \o InsertXX(v, Tail(s))
RECURSIVE SortXX(_)
SortXX(s) == IF s = << >> THEN << >> ELSE InsertXX(Head(s), SortXX(Tail(s)))

\* ROUND_UP / ROUND_DOWN of Draw.c applied to a value scaled by XDen (v >= 0):
\* ROUND_UP(f) = floor(f + 0.5), ROUND_DOWN(f) = ceil(f - 0.5)
RoundUp(v) == (2 * v + XDen) \div (2 * XDen)
RoundDown_ceil(v) == -((-v) \div XDen)
RoundDown(v) == -((XDen - 2 * v) \div (2 * XDen))

\* pixel (x, y) is set by the scan-line pass of polygon_generic
ScanFilled(P, H, x, y) ==
    LET ymax == PolyYMax(P, H)
        xx == SortXX(CollectXX(PolyEdges(P), 1, y, ymax))
    IN /\ y >= Max(0, PolyYMin(P, H)) /\ y <= ymax
       /\ \E k \in 1..(Len(xx) \div 2) :
            LET a == xx[2 * k - 1]  b == xx[2 * k]
                x_end == RoundDown(b)
            IN /\ x_end * XDen >= a
               /\ RoundUp(a) <= x /\ x <= x_end

\* pixel (x, y) is set by the hline drawn for a horizontal edge
HLineFilled(P, x, y) ==
    LET E == PolyEdges(P)
    IN \E i \in 1..Len(E) :
          /\ IsHorizontal(E[i])
          /\ E[i][1][2] = y
          /\ Min(E[i][1][1], E[i][2][1]) <= x /\ x <= Max(E[i][1][1], E[i][2][1])

\* draw.polygon(P, fill=...) on a W x H canvas paints pixel (x, y)
PolygonCovers(P, W, H, x, y) ==
    /\ x \in 0..(W - 1) /\ y \in 0..(H - 1)
    /\ (HLineFilled(P, x, y) \/ ScanFilled(P, H, x, y))

\* draw.rectangle([x0, y0, x1, y1], fill=...) : inclusive corners, clipped
RectCovers(R, W, H, x, y) ==
    /\ x \in Max(0, R[1])..Min(W - 1, R[3])
    /\ y \in Max(0, R[2])..Min(H - 1, R[4])

\* Ellipse rasterisation of Draw.c (quarter_init / quarter_next) for a circle
\* whose doubled semi-axis is a: the walk runs over doubled offsets (ex, ey)
\* from (a % 2, a) down to ey = 0, each step moving down, right or diagonally
\* to the candidate of least |a2*y^2 + b2*x^2 - a2b2| (here a = b, so the
\* common factor a^2 is divided out).
QuarterDelta(a, x, y) ==
    LET v == x * x + y * y - a * a IN IF v < 0 THEN -v ELSE v

QuarterNext(a, ex, ey) ==
    LET d0 == QuarterDelta(a, ex, ey - 2)
        d1 == QuarterDelta(a, ex + 2, ey)
        d2 == QuarterDelta(a, ex + 2, ey - 2)
        c1 == IF d1 <= d0 THEN <<ex + 2, ey, d1>> ELSE <<ex, ey - 2, d0>>
    IN IF d2 <= c1[3] THEN <<ex + 2, ey - 2>> ELSE <<c1[1], c1[2]>>

\* the walk from (ex, ey) for at most k steps, recording in acc the largest
\* doubled x offset reached on each doubled row; returns <<ex, ey, acc>>
RECURSIVE QuarterWalk(_, _, _, _, _)
QuarterWalk(a, ex, ey, acc, k) ==
    LET acc2 == [acc EXCEPT ![ey] = Max(@, ex)]
    IN IF ey = 0 \/ k = 0 THEN <<ex, ey, acc2>>
       ELSE LET n == QuarterNext(a, ex, ey) IN QuarterWalk(a, n[1], n[2], acc2, k - 1)

\* the whole walk, run in chunks of WalkChunk steps
WalkChunk == 24
RECURSIVE QuarterWalkAll(_, _)
QuarterWalkAll(a, st) ==
    IF st[2] = 0 THEN st[3]
    ELSE QuarterWalkAll(a, QuarterWalk(a, st[1], st[2], st[3], WalkChunk))

EllipseRowX(a) == QuarterWalkAll(a, QuarterWalk(a, a % 2, a, [k \in 0..a |-> 0], WalkChunk))

\* row table of the corner pieslices of the icon's rounded rectangle
\* (bounding box of side d = 2 * radius, doubled semi-axis d)
rr_row_x == EllipseRowX(2 * rr_radius)

\* draw.rounded_rectangle([x0, y0, x1, y1], radius=r, fill=...) (ImageDraw.py):
\* four pieslices with bounding boxes of side 2r in the corners, then the
\* rectangles (x0+r+1, y0, x1-r-1, y1) and (x0, y0+r+1, x1, y1-r-1).  A corner
\* pixel at row offset dy from its centre is painted when its column offset is
\* at most half the walk's x on doubled row 2*dy.
RoundedRectCovers(R, r, S, W, H, x, y) ==
    LET ccx == IF x <= R[1] + r THEN R[1] + r ELSE R[3] - r
        ccy == IF y <= R[2] + r THEN R[2] + r ELSE R[4] - r
        dx == IF x >= ccx THEN x - ccx ELSE ccx - x
        dy == IF y >= ccy THEN y - ccy ELSE ccy - y
    IN /\ RectCovers(R, W, H, x, y)
       /\ \/ x \in (R[1] + r + 1)..(R[3] - r - 1)
          \/ y \in (R[2] + r + 1)..(R[4] - r - 1)
          \/ (dy <= r /\ 2 * dx <= S[2 * dy])

\* ---------------------------------------------------------------------------
\* RasterSpec: the canvases of both generators, one sampled pixel at a time
\* ---------------------------------------------------------------------------

Canvases == {"icon", "sidebar", "header"}

\* Image.new(mode, (w, h), background) of each canvas
CanvasMode(c) == IF c = "icon" THEN "RGBA" ELSE "RGB"
CanvasW(c) == CASE c = "icon" -> size [] c = "sidebar" -> sidebar_w [] OTHER -> header_w
CanvasH(c) == CASE c = "icon" -> size [] c = "sidebar" -> sidebar_h [] OTHER -> header_h
Background(c) == IF c = "icon" THEN WhiteRGBA ELSE WhiteRGB

\* the vertex list and fill colour of each canvas's draw.polygon call
GlyphOf(c) == CASE c = "icon" -> icon_path_coords
                [] c = "sidebar" -> sidebar_path_coords
                [] OTHER -> n_small
GlyphFill(c) == IF c = "icon" THEN ZincRGBA ELSE ZincRGB

\* fill of draw.rounded_rectangle in create_neuro_icon
rr_fill_clear == <<255, 255, 255, 0>>
rr_fill == WhiteRGBA

\* rectangle of the icon's rounded_rectangle call
rr_box == <<0, 0, size, size>>

MaxRuns == 2

\* output paths (the directory e:/chatit.cloud/2030/NeuroOS/build/)
IcoPath == "icon.ico"
PngPath == "icon.png"
SidebarPath_header == "installerHeader.bmp"
SidebarPath == "installerSidebar.bmp"
HeaderPath_png == "icon.png"
HeaderPath == "installerHeader.bmp"
Paths == {IcoPath, PngPath, SidebarPath, HeaderPath}
NoFile == << >>

\* icon_sizes passed to image.save(..., sizes=icon_sizes)
icon_sizes == << <<16, 16>>, <<32, 32>>, <<48, 48>>, <<64, 64>>,
                 <<128, 128>>, <<256, 256>>, <<512, 512>> >>

\* Pillow IcoImagePlugin._save: the requested sizes larger than the image or
\* than 256 pixels are skipped; each remaining size is a frame obtained by
\* downscaling the source image
IcoFrames(sizes, w, h) ==
    {sizes[i] : i \in {k \in 1..Len(sizes) :
                        sizes[k][1] <= w /\ sizes[k][2] <= h
                        /\ sizes[k][1] <= 256 /\ sizes[k][2] <= 256}}

\* encoded contents of the four files: format, frames or size, mode, source drawing
IcoContent == <<"ICO", IcoFrames(icon_sizes, size, size), "icon">>
PngContent == <<"PNG", {<<size, size>>}, "RGBA", "icon">>
SidebarContent == <<"BMP", {<<sidebar_w, sidebar_h>>}, "RGB", "sidebar">>
HeaderContent == <<"BMP", {<<header_w, header_h>>}, "RGB", "header">>

IconMsg == "Icon generated successfully: icon.ico and icon.png"
InstMsg == "Installer assets generated: installerSidebar.bmp and installerHeader.bmp"

\* image.save(path): the file is opened for writing (truncated) and replaced
Write_append(f, p, c) == [f EXCEPT ![p] = f[p] \o c]
Write(f, p, c) == [f EXCEPT ![p] = c]

VARIABLES dirPresent, hasRR, diskOk, files, stdout,
          iconPc, instPc, iconRuns, instRuns,
          iconWritten, instWritten, iconMsgRun, instMsgRun,
          iconDirAbsentAll, dirAlways, firstIcon, firstInst

fvars == <<dirPresent, hasRR, diskOk, files, stdout,
           iconPc, instPc, iconRuns, instRuns,
           iconWritten, instWritten, iconMsgRun, instMsgRun,
           iconDirAbsentAll, dirAlways, firstIcon, firstInst>>

\* file-system variables outside Spec
FIdle ==
    /\ dirPresent = FALSE /\ hasRR = FALSE /\ diskOk = FALSE
    /\ files = [p \in Paths |-> NoFile] /\ stdout = << >>
    /\ iconPc = "none" /\ instPc = "none" /\ iconRuns = 0 /\ instRuns = 0
    /\ iconWritten = {} /\ instWritten = {}
    /\ iconMsgRun = FALSE /\ instMsgRun = FALSE
    /\ iconDirAbsentAll = FALSE /\ dirAlways = FALSE
    /\ firstIcon = << >> /\ firstInst = << >>

VARIABLES canvas, px, py, width, height, mode, stage, color, prevColor

rvars == <<canvas, px, py, width, height, mode, stage, color, prevColor>>

VARIABLES glyph, verts, ei, ej, vi

gvars == <<glyph, verts, ei, ej, vi>>

\* raster variables outside RasterSpec
RIdle ==
    /\ canvas = "none" /\ px = 0 /\ py = 0 /\ width = 0 /\ height = 0
    /\ mode = "none" /\ stage = "none" /\ color = << >> /\ prevColor = << >>

\* glyph variables outside GlyphSpec
GIdle == glyph = "none" /\ verts = << >> /\ ei = 0 /\ ej = 0 /\ vi = 0

RInit ==
    \E c \in Canvases :
      \E x \in 0..(CanvasW(c) - 1), y \in 0..(CanvasH(c) - 1) :
        /\ canvas = c /\ px = x /\ py = y
        /\ width = CanvasW(c) /\ height = CanvasH(c)
        /\ mode = CanvasMode(c)
        /\ stage = "new"
        /\ color = Background(c)
        /\ prevColor = Background(c)
    /\ GIdle /\ FIdle

\* create_neuro_icon: draw.rounded_rectangle([0, 0, size, size], radius=128, fill=white)
IconRoundedRect ==
    /\ canvas = "icon" /\ stage = "new"
    /\ stage' = "rr"
    /\ prevColor' = color
    /\ color' = IF RoundedRectCovers(rr_box, rr_radius, rr_row_x, width, height, px, py)
                THEN rr_fill ELSE color
    /\ UNCHANGED <<canvas, px, py, width, height, mode>>
    /\ UNCHANGED gvars /\ UNCHANGED fvars

\* create_neuro_icon: draw.polygon(path_coords, fill=(24, 24, 27, 255))
IconPolygon ==
    /\ canvas = "icon" /\ stage = "rr"
    /\ stage' = "poly"
    /\ prevColor' = color
    /\ color' = IF PolygonCovers(icon_path_coords, width, height, px, py)
                THEN ZincRGBA ELSE color
    /\ UNCHANGED <<canvas, px, py, width, height, mode>>
    /\ UNCHANGED gvars /\ UNCHANGED fvars

\* create_installer_assets: draw.rectangle([0, sidebar_h-5, sidebar_w, sidebar_h], fill=(24, 24, 27))
SidebarRect ==
    /\ canvas = "sidebar" /\ stage = "new"
    /\ stage' = "rect"
    /\ prevColor' = color
    /\ color' = IF RectCovers(sidebar_rect, width, height, px, py)
                THEN ZincRGB ELSE color
    /\ UNCHANGED <<canvas, px, py, width, height, mode>>
    /\ UNCHANGED gvars /\ UNCHANGED fvars

\* create_installer_assets: draw.polygon(path_coords, fill=(24, 24, 27))
SidebarPolygon ==
    /\ canvas = "sidebar" /\ stage = "rect"
    /\ stage' = "poly"
    /\ prevColor' = color
    /\ color' = IF PolygonCovers(sidebar_path_coords, width, height, px, py)
                THEN ZincRGB ELSE color
    /\ UNCHANGED <<canvas, px, py, width, height, mode>>
    /\ UNCHANGED gvars /\ UNCHANGED fvars

\* create_installer_assets: draw.polygon(n_small, fill=(24, 24, 27))
HeaderPolygon ==
    /\ canvas = "header" /\ stage = "new"
    /\ stage' = "poly"
    /\ prevColor' = color
    /\ color' = IF PolygonCovers(n_small, width, height, px, py)
                THEN ZincRGB ELSE color
    /\ UNCHANGED <<canvas, px, py, width, height, mode>>
    /\ UNCHANGED gvars /\ UNCHANGED fvars

RNext ==
    \/ IconRoundedRect
    \/ IconPolygon
    \/ SidebarRect
    \/ SidebarPolygon
    \/ HeaderPolygon

RasterSpec == RInit /\ [][RNext]_<<rvars, gvars>>

\* ---------------------------------------------------------------------------
\* Exact plane geometry of a vertex list (integer arithmetic)
\* ---------------------------------------------------------------------------

\* point <<x, y>> lies on the segment from a to b
OnSegment(a, b, x, y) ==
    /\ (b[1] - a[1]) * (y - a[2]) = (b[2] - a[2]) * (x - a[1])
    /\ Min(a[1], b[1]) <= x /\ x <= Max(a[1], b[1])
    /\ Min(a[2], b[2]) <= y /\ y <= Max(a[2], b[2])

\* the ray from <<x, y>> towards +x crosses the segment from a to b
RayCrosses(a, b, x, y) ==
    /\ (a[2] > y) # (b[2] > y)
    /\ IF b[2] > a[2]
       THEN (x - a[1]) * (b[2] - a[2]) < (y - a[2]) * (b[1] - a[1])
       ELSE (x - a[1]) * (b[2] - a[2]) > (y - a[2]) * (b[1] - a[1])

\* the vertex list without a trailing repeat of its first vertex
DistinctVertices(P) ==
    IF Len(P) > 1 /\ P[Len(P)] = P[1] THEN SubSeq(P, 1, Len(P) - 1) ELSE P

\* the sides of the closed polygon through the vertices of P, in order
RingEdges(P) ==
    LET V == DistinctVertices(P)
    IN [i \in 1..Len(V) |-> <<V[i], V[(i % Len(V)) + 1]>>]

\* the sides of the closed polygon through every entry of P, as listed
ListEdges(P) == [i \in 1..Len(P) |-> <<P[i], P[(i % Len(P)) + 1]>>]

\* <<x, y>> lies in the closed region bounded by the polygon P
InsideClosed(P, x, y) ==
    LET E == RingEdges(P)
    IN \/ \E i \in 1..Len(E) : OnSegment(E[i][1], E[i][2], x, y)
       \/ Cardinality({i \in 1..Len(E) : RayCrosses(E[i][1], E[i][2], x, y)}) % 2 = 1

\* the vertex list P scaled by k about the origin
ScalePoly(P, k) == [i \in 1..Len(P) |-> <<k * P[i][1], k * P[i][2]>>]

\* some point of row y within half a pixel of column x lies in the closed polygon P
NearPolygon(P, x, y) ==
    \E d \in {-1, 0, 1} : InsideClosed(ScalePoly(P, 2), 2 * x + d, 2 * y)

\* pixel lies in the sidebar's bottom band
InBottomBand(c, x, y) == c = "sidebar" /\ RectCovers(sidebar_rect, width, height, x, y)

\* C2: the sidebar is 164x314 RGB; every pixel of rows 309..313 (all columns)
\* is near-black, and the band drawn by draw.rectangle has no row above 309.
SidebarBand ==
    canvas = "sidebar" /\ stage = "poly" =>
        /\ width = 164 /\ height = 314 /\ mode = "RGB" /\ Len(color) = 3
        /\ (py \in 309..313 => color = ZincRGB)
        /\ (RectCovers(sidebar_rect, width, height, px, py) => py >= 309)
SidebarBandWitness ==
    canvas = "sidebar" /\ stage = "poly" /\ py = 309 /\ px = 163

\* C3 (as stated): on every canvas every pixel inside the glyph polygon is
\* near-black and every pixel outside it (and off the band) is opaque white.
ColorConstancyStated ==
    stage = "poly" =>
        /\ (InsideClosed(GlyphOf(canvas), px, py) => color = GlyphFill(canvas))
        /\ (~InsideClosed(GlyphOf(canvas), px, py) /\ ~InBottomBand(canvas, px, py)
               => color = Background(canvas))

\* C3 (amended): every pixel is near-black or opaque white; every pixel in
\* the closed glyph polygon is near-black; a near-black pixel off the band is
\* within half a pixel, along its row, of a point of the polygon.
ColorConstancy ==
    stage = "poly" =>
        /\ color \in {GlyphFill(canvas), Background(canvas)}
        /\ (InsideClosed(GlyphOf(canvas), px, py) => color = GlyphFill(canvas))
        /\ (color = GlyphFill(canvas) /\ ~InBottomBand(canvas, px, py)
               => NearPolygon(GlyphOf(canvas), px, py))
ColorConstancyWitness ==
    stage = "poly" /\ canvas = "icon" /\ color = ZincRGBA
    /\ ~InsideClosed(GlyphOf(canvas), px, py)

\* C10: the icon's white rounded rectangle leaves every pixel as it was.
RoundedRectInert == canvas = "icon" /\ stage = "rr" => color = prevColor
RoundedRectInertWitness ==
    canvas = "icon" /\ stage = "rr" /\ RoundedRectCovers(rr_box, rr_radius, rr_row_x, width, height, px, py)

\* ---------------------------------------------------------------------------
\* GlyphSpec: the vertex list handed to each draw.polygon call
\* ---------------------------------------------------------------------------

\* orientation of the triangle a, b, c: 1 counter-clockwise, -1 clockwise, 0 collinear
Orient(a, b, c) ==
    LET v == (b[1] - a[1]) * (c[2] - a[2]) - (b[2] - a[2]) * (c[1] - a[1])
    IN IF v > 0 THEN 1 ELSE IF v < 0 THEN -1 ELSE 0

\* the closed segments e and f have a point in common
SegmentsMeet(e, f) ==
    LET o1 == Orient(e[1], e[2], f[1])  o2 == Orient(e[1], e[2], f[2])
        o3 == Orient(f[1], f[2], e[1])  o4 == Orient(f[1], f[2], e[2])
    IN \/ (o1 # o2 /\ o3 # o4 /\ o1 * o2 <= 0 /\ o3 * o4 <= 0
           /\ ~(o1 = 0 /\ o2 = 0))
       \/ (o1 = 0 /\ OnSegment(e[1], e[2], f[1][1], f[1][2]))
       \/ (o2 = 0 /\ OnSegment(e[1], e[2], f[2][1], f[2][2]))
       \/ (o3 = 0 /\ OnSegment(f[1], f[2], e[1][1], e[1][2]))
       \/ (o4 = 0 /\ OnSegment(f[1], f[2], e[2][1], e[2][2]))

\* sides i and j of an n-sided closed polygon are neither equal nor consecutive
NonAdjacent(i, j, n) ==
    i # j /\ j # (i % n) + 1 /\ i # (j % n) + 1

\* the three draw.polygon calls and the vertex list each one receives
GInit ==
    \E g \in Canvases :
        /\ glyph = g
        /\ verts = GlyphOf(g)
        /\ ei = 0 /\ ej = 0 /\ vi = 0
    /\ RIdle /\ FIdle

\* a pair of sides of the polygon drawn from the list
PickSides ==
    /\ ei = 0
    /\ \E i, j \in 1..Len(ListEdges(verts)) : ei' = i /\ ej' = j
    /\ UNCHANGED <<glyph, verts, vi>>
    /\ UNCHANGED rvars /\ UNCHANGED fvars

\* one vertex of the list
PickVertex ==
    /\ vi = 0
    /\ \E k \in 1..Len(verts) : vi' = k
    /\ UNCHANGED <<glyph, verts, ei, ej>>
    /\ UNCHANGED rvars /\ UNCHANGED fvars

GNext == PickSides \/ PickVertex

GlyphSpec == GInit /\ [][GNext]_<<rvars, gvars>>

\* C4 (as stated): every vertex list passed to draw.polygon has exactly 10
\* vertices and no two non-adjacent sides of the closed polygon it lists meet.
TenVertexSimpleStated ==
    /\ Len(verts) = 10
    /\ (ei > 0 /\ NonAdjacent(ei, ej, Len(verts))
          => ~SegmentsMeet(ListEdges(verts)[ei], ListEdges(verts)[ej]))

\* C4 (amended): the sidebar and header lists have exactly 10 vertices; the
\* icon list has 11 entries, the last repeating the first; each list has 10
\* distinct vertices, and the closed polygon through them is simple.
TenVertexSimple ==
    /\ (glyph # "icon" => Len(verts) = 10)
    /\ (glyph = "icon" => Len(verts) = 11 /\ verts[11] = verts[1])
    /\ Cardinality({verts[k] : k \in 1..Len(verts)}) = 10
    /\ Len(DistinctVertices(verts)) = 10
    /\ (ei > 0 /\ ei <= 10 /\ ej <= 10 /\ NonAdjacent(ei, ej, 10)
          => ~SegmentsMeet(RingEdges(verts)[ei], RingEdges(verts)[ej]))
TenVertexSimpleWitness ==
    glyph = "icon" /\ ei = 1 /\ ej = 6

\* C9: every vertex lies on its canvas, and the sidebar glyph lies above the
\* bottom band (rows sidebar_h-5 .. sidebar_h-1).
GlyphOnCanvas ==
    vi > 0 =>
        /\ verts[vi][1] \in 0..(CanvasW(glyph) - 1)
        /\ verts[vi][2] \in 0..(CanvasH(glyph) - 1)
        /\ (glyph = "sidebar" => verts[vi][2] < sidebar_rect[2])
GlyphOnCanvasWitness ==
    glyph = "sidebar" /\ vi > 0 /\ verts[vi][2] = 150

\* ---------------------------------------------------------------------------
\* Spec: the two generators writing their files
\* ---------------------------------------------------------------------------

vars == <<rvars, gvars, fvars>>

Init ==
    /\ dirPresent \in BOOLEAN
    /\ hasRR \in BOOLEAN          \* Pillow provides ImageDraw.rounded_rectangle (>= 8.2)
    /\ diskOk \in BOOLEAN         \* every write to an existing directory succeeds
    /\ files = [p \in Paths |-> NoFile]
    /\ stdout = << >>
    /\ iconPc = "idle" /\ instPc = "idle"
    /\ iconRuns = 0 /\ instRuns = 0
    /\ iconWritten = {} /\ instWritten = {}
    /\ iconMsgRun = FALSE /\ instMsgRun = FALSE
    /\ iconDirAbsentAll = FALSE
    /\ dirAlways = dirPresent
    /\ firstIcon = << >> /\ firstInst = << >>
    /\ RIdle /\ GIdle

\* a write of image.save succeeds only into an existing directory
SaveOk_anyDir == TRUE
SaveOk == dirPresent

\* the write raises: missing directory, or a faulty disk (any single write)
SaveMayFail == ~dirPresent \/ ~diskOk

\* a write that raises after open: the file was opened 'w+b' (truncated), so an
\* existing file is left truncated or partially written; a file the save
\* created is left partial or removed again; an error at open leaves it as it
\* was.  Without the directory nothing is opened.
Truncated == <<"TRUNCATED", {}, "none">>
SaveFailOutcomes(f, p) ==
    IF dirPresent THEN {f[p], Truncated} ELSE {f[p]}

\* create_neuro_icon is invoked: Image.new, ImageDraw.Draw, draw.rounded_rectangle
\* (AttributeError without rounded_rectangle) and draw.polygon
IconStart ==
    /\ iconPc \in {"idle", "done", "failed"} /\ iconRuns < MaxRuns
    /\ iconRuns' = iconRuns + 1
    /\ iconPc' = IF hasRR THEN "drawn" ELSE "failed"
    /\ iconWritten' = {} /\ iconMsgRun' = FALSE
    /\ iconDirAbsentAll' = ~dirPresent
    /\ UNCHANGED <<dirPresent, hasRR, diskOk, files, stdout, instPc, instRuns,
                   instWritten, instMsgRun, dirAlways, firstIcon, firstInst>>

\* image.save('.../icon.ico', sizes=icon_sizes)
IconSaveIco ==
    /\ iconPc = "drawn"
    /\ \/ /\ SaveOk
          /\ files' = Write(files, IcoPath, IcoContent)
          /\ iconWritten' = iconWritten \cup {IcoPath}
          /\ iconPc' = "ico"
       \/ /\ SaveMayFail
          /\ iconPc' = "failed" /\ UNCHANGED iconWritten
          /\ \E c \in SaveFailOutcomes(files, IcoPath) : files' = [files EXCEPT ![IcoPath] = c]
    /\ UNCHANGED <<dirPresent, hasRR, diskOk, stdout, instPc, iconRuns, instRuns,
                   instWritten, iconMsgRun, instMsgRun, iconDirAbsentAll,
                   dirAlways, firstIcon, firstInst>>

\* image.save('.../icon.png')
IconSavePng ==
    /\ iconPc = "ico"
    /\ \/ /\ SaveOk
          /\ files' = Write(files, PngPath, PngContent)
          /\ iconWritten' = iconWritten \cup {PngPath}
          /\ iconPc' = "png"
       \/ /\ SaveMayFail
          /\ iconPc' = "failed" /\ UNCHANGED iconWritten
          /\ \E c \in SaveFailOutcomes(files, PngPath) : files' = [files EXCEPT ![PngPath] = c]
    /\ UNCHANGED <<dirPresent, hasRR, diskOk, stdout, instPc, iconRuns, instRuns,
                   instWritten, iconMsgRun, instMsgRun, iconDirAbsentAll,
                   dirAlways, firstIcon, firstInst>>

\* print("Icon generated successfully: icon.ico and icon.png")
IconPrint ==
    /\ iconPc = "png"
    /\ iconPc' = "done"
    /\ stdout' = Append(stdout, IconMsg)
    /\ iconMsgRun' = TRUE
    /\ firstIcon' = IF firstIcon = << >>
                    THEN <<files[IcoPath], files[PngPath]>> ELSE firstIcon
    /\ UNCHANGED <<dirPresent, hasRR, diskOk, files, instPc, iconRuns, instRuns,
                   iconWritten, instWritten, instMsgRun, iconDirAbsentAll,
                   dirAlways, firstInst>>

\* create_installer_assets is invoked; sidebar drawn and saved
InstSaveSidebar ==
    /\ instPc \in {"idle", "done", "failed"} /\ instRuns < MaxRuns
    /\ instRuns' = instRuns + 1
    /\ instMsgRun' = FALSE
    /\ \/ /\ SaveOk
          /\ files' = Write(files, SidebarPath, SidebarContent)
          /\ instWritten' = {SidebarPath}
          /\ instPc' = "sidebar"
       \/ /\ SaveMayFail
          /\ instPc' = "failed" /\ instWritten' = {}
          /\ \E c \in SaveFailOutcomes(files, SidebarPath) : files' = [files EXCEPT ![SidebarPath] = c]
    /\ UNCHANGED <<dirPresent, hasRR, diskOk, stdout, iconPc, iconRuns,
                   iconWritten, iconMsgRun, iconDirAbsentAll,
                   dirAlways, firstIcon, firstInst>>

\* header drawn and saved
InstSaveHeader ==
    /\ instPc = "sidebar"
    /\ \/ /\ SaveOk
          /\ files' = Write(files, HeaderPath, HeaderContent)
          /\ instWritten' = instWritten \cup {HeaderPath}
          /\ instPc' = "header"
       \/ /\ SaveMayFail
          /\ instPc' = "failed" /\ UNCHANGED instWritten
          /\ \E c \in SaveFailOutcomes(files, HeaderPath) : files' = [files EXCEPT ![HeaderPath] = c]
    /\ UNCHANGED <<dirPresent, hasRR, diskOk, stdout, iconPc, iconRuns, instRuns,
                   iconWritten, iconMsgRun, instMsgRun, iconDirAbsentAll,
                   dirAlways, firstIcon, firstInst>>

\* print("Installer assets generated: ...")
InstPrint ==
    /\ instPc = "header"
    /\ instPc' = "done"
    /\ stdout' = Append(stdout, InstMsg)
    /\ instMsgRun' = TRUE
    /\ firstInst' = IF firstInst = << >>
                    THEN <<files[SidebarPath], files[HeaderPath]>> ELSE firstInst
    /\ UNCHANGED <<dirPresent, hasRR, diskOk, files, iconPc, iconRuns, instRuns,
                   iconWritten, instWritten, iconMsgRun, iconDirAbsentAll,
                   dirAlways, firstIcon>>

\* environment: the output directory is deleted with its contents
RemoveDir ==
    /\ dirPresent
    /\ dirPresent' = FALSE
    /\ files' = [p \in Paths |-> NoFile]
    /\ dirAlways' = FALSE
    /\ UNCHANGED <<hasRR, diskOk, stdout, iconPc, instPc, iconRuns, instRuns,
                   iconWritten, instWritten, iconMsgRun, instMsgRun,
                   iconDirAbsentAll, firstIcon, firstInst>>

\* environment: the output directory is created (empty)
CreateDir ==
    /\ ~dirPresent
    /\ dirPresent' = TRUE
    /\ iconDirAbsentAll' = FALSE
    /\ UNCHANGED <<hasRR, diskOk, files, stdout, iconPc, instPc, iconRuns, instRuns,
                   iconWritten, instWritten, iconMsgRun, instMsgRun,
                   dirAlways, firstIcon, firstInst>>

Next ==
    \/ IconStart \/ IconSaveIco \/ IconSavePng \/ IconPrint
    \/ InstSaveSidebar \/ InstSaveHeader \/ InstPrint
    \/ RemoveDir \/ CreateDir

Spec == Init /\ [][Next /\ UNCHANGED <<rvars, gvars>>]_vars

\* C1 (as stated): icon.ico holds exactly the 7 frames 16, 32, 48, 64, 128,
\* 256 and 512 pixels square, all downscaled from the 512x512 icon canvas.
IcoSevenFrames ==
    files[IcoPath] # NoFile /\ files[IcoPath][1] = "ICO" =>
        /\ files[IcoPath][2] = {<<16, 16>>, <<32, 32>>, <<48, 48>>, <<64, 64>>,
                                <<128, 128>>, <<256, 256>>, <<512, 512>>}
        /\ files[IcoPath][3] = "icon"

\* C5: create_neuro_icon writes only icon.ico and icon.png, prints its message
\* only once both are written, and a run during which the directory never
\* exists fails, prints nothing and leaves neither file.
IconRunContract ==
    /\ iconWritten \subseteq {"icon.ico", "icon.png"}
    /\ (iconMsgRun => iconWritten = {"icon.ico", "icon.png"})
    /\ (iconRuns > 0 /\ iconPc \in {"done", "failed"} /\ iconDirAbsentAll =>
           /\ iconPc = "failed" /\ ~iconMsgRun
           /\ files["icon.ico"] = NoFile /\ files["icon.png"] = NoFile)
IconRunContractWitness ==
    iconRuns > 0 /\ iconPc = "failed" /\ iconDirAbsentAll /\ hasRR

\* C6: create_installer_assets writes only the sidebar then the header,
\* prints its message only once both are written, and a failing step prints
\* nothing and leaves the files already written by the run as they were (no
\* cleanup).
InstRunContract ==
    /\ [](/\ instWritten \subseteq {"installerSidebar.bmp", "installerHeader.bmp"}
          /\ ("installerHeader.bmp" \in instWritten => "installerSidebar.bmp" \in instWritten)
          /\ (instMsgRun => instWritten = {"installerSidebar.bmp", "installerHeader.bmp"}))
    /\ [][(instPc' = "failed" /\ (instPc # "failed" \/ instRuns' # instRuns))
            => (\A p \in instWritten' : files'[p] = files[p]) /\ stdout' = stdout]_vars
InstRunContractWitness ==
    /\ instPc = "failed" /\ "installerSidebar.bmp" \in instWritten
    /\ files["installerSidebar.bmp"] # NoFile /\ files["installerHeader.bmp"] = NoFile

EmptyDir == [p \in Paths |-> NoFile]
IconThenInst ==
    Write(Write(Write(Write(EmptyDir, IcoPath, IcoContent), PngPath, PngContent),
                SidebarPath, SidebarContent), HeaderPath, HeaderContent)
InstThenIcon ==
    Write(Write(Write(Write(EmptyDir, SidebarPath, SidebarContent), HeaderPath, HeaderContent),
                IcoPath, IcoContent), PngPath, PngContent)

\* C8: whatever the interleaving of their steps, once both generators have
\* completed (directory present throughout) the files are those of either
\* sequential order.
ParallelEqualsSequential ==
    iconPc = "done" /\ instPc = "done" /\ dirAlways =>
        files = IconThenInst /\ files = InstThenIcon
ParallelEqualsSequentialWitness ==
    /\ iconPc = "done" /\ instPc = "done" /\ dirAlways
    /\ iconRuns = 1 /\ instRuns = 1

====
